---- MODULE Spec2Model ----
(***************************************************************************)
(* Controller side of the joybug-tauri debugger: the session store         *)
(* (commands.rs), the session record (state.rs) and the per-session        *)
(* control loop (session.rs).                                              *)
(*                                                                         *)
(* The sources name the same things differently in places: commands.rs     *)
(* says SessionStatus::Finished / step_sender / StepCommand where          *)
(* session.rs says SessionStatusUI::Stopped / ui_receiver / UICommand.     *)
(* The model has one terminal status, "Stopped", and one command queue per *)
(* record (tx = the sender kept in the record, rx = the receiver).         *)
(*                                                                         *)
(* Three specifications share the definitions.  Spec follows one session   *)
(* through its control loop with every command of the front end.           *)
(* SpecStore follows the session store with two session ids and two        *)
(* server urls.  SpecPolicy applies the stop policy to every event variant *)
(* under every settings value.  scope names the specification a behaviour  *)
(* belongs to and never changes.                                           *)
(*                                                                         *)
(* A record lives in a slot h (the Arc<Mutex<SessionStateUI>>); the store  *)
(* maps a session id to a slot.  A slot outlives its store entry while a   *)
(* thread still holds the Arc.                                             *)
(*                                                                         *)
(* ret is the value returned by the command executed in the current step   *)
(* and out the sequence of emits / log entries / toasts / RPC requests     *)
(* produced by the current step; both are overwritten by every step.       *)
(***************************************************************************)
EXTENDS Naturals, Sequences, FiniteSets, TLC

VARIABLES store, rec, thr, settings, scope, ret, out

vars == <<store, rec, thr, settings, scope, ret, out>>

(* ---------------------------------------------------------------- bounds *)
MaxRec == 2
MaxThr == 1
MaxQueue == 1
MaxEvents == 2
MaxSize == 4

Handles == 1..MaxRec
Threads == 1..MaxThr

\* the threads start_debug_session can have spawned at one time: one more in
\* the scope that studies repeated starts of one session
ThreadsOf(sc) ==
  IF sc = "race" THEN 1..(MaxThr + 1)
  ELSE IF sc = "aux" THEN 1..(MaxThr + 2)
  ELSE Threads

(* ------------------------------------------------------------ input sets *)
\* session ids: create_debug_session derives the id from the clock
Ids == {1, 2}

\* the number of events of one run that are looked at: one more in the scope
\* that studies the module table (load, load again, unload)
\* the number of commands that wait in a session's queue: one more in the
\* scope that studies commands sent in quick succession
QueueCap(sc) == IF sc = "queue" THEN MaxQueue + 1 ELSE MaxQueue

EventsCap(sc) == IF sc \in {"tables", "events"} THEN MaxEvents + 1 ELSE MaxEvents

IdsOf(sc) == IF sc = "store" THEN Ids ELSE {1}
NamesOf(sc) == IF sc = "store" THEN {"n1", "n2"} ELSE {"n1"}
UrlsOf(sc) == IF sc = "store" THEN {"u1", "u2"} ELSE {"u1"}
CmdsOf(sc) == {"c1"}

(* ------------------------------------------------------------- settings *)
DefaultSettings ==
  [stop_on_thread_create |-> TRUE,
   stop_on_thread_exit |-> FALSE,
   stop_on_dll_load |-> TRUE,
   stop_on_dll_unload |-> TRUE,
   stop_on_initial_breakpoint |-> TRUE,
   stop_on_process_create |-> TRUE]

AllSettings ==
  [stop_on_thread_create : BOOLEAN,
   stop_on_thread_exit : BOOLEAN,
   stop_on_dll_load : BOOLEAN,
   stop_on_dll_unload : BOOLEAN,
   stop_on_initial_breakpoint : BOOLEAN,
   stop_on_process_create : BOOLEAN]

(* --------------------------------------------------------------- events *)
Ev(type, base, tid, name) ==
  [type |-> type, base |-> base, tid |-> tid, name |-> name]

NoEvent == Ev("None", 0, 0, "")

EventTypes ==
  {"ProcessCreated", "ProcessExited", "ThreadCreated", "ThreadExited",
   "DllLoaded", "DllUnloaded", "Breakpoint", "Exception", "Output",
   "RipEvent", "InitialBreakpoint", "Unknown"}

\* The events the debug server sends in the scope of a specification.
ServerEvents(sc) ==
  IF sc = "system"
    THEN {Ev("ProcessCreated", 1, 1, "main.exe"), Ev("Breakpoint", 0, 1, ""),
          Ev("ThreadExited", 0, 1, ""), Ev("Output", 0, 1, ""),
          Ev("ProcessExited", 0, 0, "")}
  ELSE IF sc \in {"store", "race", "aux", "queue", "early"}
    THEN {Ev("Breakpoint", 0, 1, ""), Ev("ProcessExited", 0, 0, "")}
  ELSE IF sc = "tables"
    THEN {Ev("ProcessCreated", 1, 1, "main.exe"), Ev("DllLoaded", 1, 1, "a.dll"),
          Ev("DllLoaded", 2, 1, ""), Ev("DllUnloaded", 1, 1, ""),
          Ev("ProcessExited", 0, 0, "")}
  ELSE IF sc = "events"
    THEN {Ev("ProcessCreated", 1, 1, "main.exe"), Ev("DllLoaded", 1, 1, "a.dll"),
          Ev("DllUnloaded", 1, 1, ""), Ev("ThreadCreated", 0, 1, ""),
          Ev("ThreadCreated", 0, 2, ""), Ev("ThreadExited", 0, 1, ""),
          Ev("ProcessExited", 0, 0, "")}
  ELSE {Ev(ty, 0, 1, "") : ty \in EventTypes}

(* ------------------------------------------------- outputs of one step *)
\* held: the mutexes ("store", "record") the caller holds while it produces
\* the item
Item(kind, name, h, status, info) ==
  [kind |-> kind, name |-> name, h |-> h, status |-> status, info |-> info,
   held |-> {}]

\* the items produced inside the scope of a MutexGuard
Holding(locks, items) ==
  [i \in 1..Len(items) |-> [items[i] EXCEPT !.held = locks]]

Emit(name, h, status, info) == Item("emit", name, h, status, info)
Log(level, h, info) == Item("log", level, h, "", info)
Toast(level, info) == Item("toast", level, 0, "", info)
Rpc(chan, h, req) == Item("rpc", chan, h, "", req)

Ret(op, id, res) == [op |-> op, id |-> id, res |-> res]
NoRet == Ret("", 0, "")

(* --------------------------------------------------------- the record *)
NoTx == [k |-> "none", t |-> 0]
OwnTx == [k |-> "own", t |-> 0]
DeadTx == [k |-> "dead", t |-> 0]
ThrTx(t) == [k |-> "thr", t |-> t]
NoRx == [present |-> FALSE, q |-> <<>>]
FreshRx == [present |-> TRUE, q |-> <<>>]

FreeRec ==
  [id |-> 0, name |-> "", server_url |-> "", launch_command |-> "",
   created_at |-> 0, status |-> "Free", error |-> "",
   events |-> <<>>, modules |-> <<>>, threads |-> <<>>,
   current_event |-> NoEvent, current_context |-> "None",
   tx |-> NoTx, rx |-> NoRx, debug_result |-> "None",
   aux_client |-> FALSE, lock |-> "free"]

SessionStateUI_new(id, name, server_url, launch_command) ==
  [id |-> id, name |-> name, server_url |-> server_url,
   launch_command |-> launch_command,
   created_at |-> id, status |-> "Created", error |-> "",
   events |-> <<>>, modules |-> <<>>, threads |-> <<>>,
   current_event |-> NoEvent, current_context |-> "None",
   tx |-> OwnTx, rx |-> FreshRx, debug_result |-> "None",
   aux_client |-> FALSE, lock |-> "free"]

\* a reset that clears the transient fields but keeps the old channel
reset_KeepChannel(r) ==
  [r EXCEPT !.status = "Created", !.error = "",
            !.events = <<>>, !.modules = <<>>, !.threads = <<>>,
            !.current_event = NoEvent, !.current_context = "None",
            !.debug_result = "None", !.aux_client = FALSE]

\* reset without the clearing of the event log and of the current event
reset_KeepEvents(r) ==
  [r EXCEPT !.status = "Created", !.error = "",
            !.modules = <<>>, !.threads = <<>>,
            !.current_context = "None",
            !.debug_result = "None", !.aux_client = FALSE,
            !.tx = OwnTx, !.rx = FreshRx]

reset(r) ==
  [r EXCEPT !.status = "Created", !.error = "",
            !.events = <<>>, !.modules = <<>>, !.threads = <<>>,
            !.current_event = NoEvent, !.current_context = "None",
            !.debug_result = "None", !.aux_client = FALSE,
            !.tx = OwnTx, !.rx = FreshRx]

SetStatus(r, s, msg) == [r EXCEPT !.status = s, !.error = msg]

emit_session_event(h, r) == Emit("session-updated", h, r.status, r.error)

(* ------------------------------------------------------ thread records *)
\* seen: the events launch has handed to the event handler of this thread
\* since the thread was spawned, in arrival order
IdleThr ==
  [pc |-> "idle", h |-> 0, ev |-> NoEvent, rx |-> <<>>,
   result |-> "None", err |-> "", req |-> "", seen |-> <<>>]

Least(S) == CHOOSE x \in S : \A y \in S : x <= y

Referenced(h, st, th) ==
  \/ \E id \in Ids : st[id] = h
  \/ \E t \in DOMAIN th : th[t].pc # "idle" /\ th[t].h = h

\* Dropping the last Arc frees the record.
DropUnreferenced(recs, st, th) ==
  [h \in Handles |->
     IF Referenced(h, st, th) THEN recs[h] ELSE FreeRec]

\* The receiver held by thread t is dropped: its senders go dead.
DropThreadRxRecs(recs, t) ==
  [h \in Handles |->
     IF recs[h].tx = ThrTx(t) THEN [recs[h] EXCEPT !.tx = DeadTx] ELSE recs[h]]

\* Whether some Sender of the channel whose receiver thread t holds is alive.
SenderAlive(t) == \E h \in Handles : rec[h].tx = ThrTx(t)

StoreUnlocked ==
  \A id \in Ids : store[id] # 0 => rec[store[id]].lock = "free"

(* ----------------------------------------------------------------- Init *)
\* the application starts with an empty store and the default settings
InitScope(sc) ==
  /\ store = [id \in Ids |-> 0]
  /\ rec = [h \in Handles |-> FreeRec]
  /\ thr = [t \in ThreadsOf(sc) |-> IdleThr]
  /\ settings = DefaultSettings
  /\ scope = sc
  /\ ret = NoRet
  /\ out = <<>>

Init == InitScope("system")

InitStore == InitScope("store")

InitRace == InitScope("race")

\* the settings of the scope that studies the module table: the defaults
\* (DLL events pause) or no pause on DLL events
TableSettings ==
  {DefaultSettings,
   [DefaultSettings EXCEPT !.stop_on_dll_load = FALSE, !.stop_on_dll_unload = FALSE]}

InitTables ==
  /\ store = [id \in Ids |-> 0]
  /\ rec = [h \in Handles |-> FreeRec]
  /\ thr = [t \in Threads |-> IdleThr]
  /\ settings \in TableSettings
  /\ scope = "tables"
  /\ ret = NoRet
  /\ out = <<>>

(* ------------------------------------------------------- store commands *)
DuplicateExists_NoCheck(excl, server_url, launch_command) == FALSE

\* compares the stored launch command with the requested url
DuplicateExists_WrongField(excl, server_url, launch_command) ==
  \E id \in Ids :
    /\ store[id] # 0
    /\ id # excl
    /\ rec[store[id]].server_url = server_url
    /\ rec[store[id]].launch_command = server_url

DuplicateExists(excl, server_url, launch_command) ==
  \E id \in Ids :
    /\ store[id] # 0
    /\ id # excl
    /\ rec[store[id]].server_url = server_url
    /\ rec[store[id]].launch_command = launch_command

create_debug_session(name, server_url, launch_command, ts) ==
  /\ StoreUnlocked
  /\ IF DuplicateExists(0, server_url, launch_command)
       THEN /\ ret' = Ret("create", ts, "SessionAlreadyExists")
            /\ out' = <<>>
            /\ UNCHANGED <<store, rec, thr>>
       ELSE /\ \E h \in Handles : rec[h].status = "Free"
            /\ LET h == Least({x \in Handles : rec[x].status = "Free"})
                   r == SessionStateUI_new(ts, name, server_url, launch_command)
                   st == [store EXCEPT ![ts] = h]
               IN /\ store' = st
                  /\ rec' = DropUnreferenced([rec EXCEPT ![h] = r], st, thr)
                  /\ out' = <<Log("INFO", h, "created"), emit_session_event(h, r)>>
            /\ ret' = Ret("create", ts, "Ok")
            /\ UNCHANGED thr
  /\ UNCHANGED <<settings, scope>>

Editable_AlsoError(status) == status \in {"Created", "Stopped", "Error"}

Editable(status) == status \in {"Created", "Stopped"}

update_debug_session(session_id, name, server_url, launch_command) ==
  /\ StoreUnlocked
  /\ IF DuplicateExists(session_id, server_url, launch_command)
       THEN /\ ret' = Ret("update", session_id, "SessionAlreadyExists")
            /\ out' = <<>>
            /\ UNCHANGED rec
       ELSE IF store[session_id] = 0
       THEN /\ ret' = Ret("update", session_id, "SessionNotFound")
            /\ out' = <<>>
            /\ UNCHANGED rec
       ELSE IF ~Editable(rec[store[session_id]].status)
       THEN /\ ret' = Ret("update", session_id, "NotEditable")
            /\ out' = <<>>
            /\ UNCHANGED rec
       ELSE LET h == store[session_id]
                r == [rec[h] EXCEPT !.name = name,
                                    !.server_url = server_url,
                                    !.launch_command = launch_command]
            IN /\ rec' = [rec EXCEPT ![h] = r]
               /\ out' = <<Log("INFO", h, "updated"), emit_session_event(h, r)>>
               /\ ret' = Ret("update", session_id, "Ok")
  /\ UNCHANGED <<store, thr, settings, scope>>

(* ---------------------------------------------------- the command queue *)
SendOk(tx) == tx.k \in {"own", "thr"}

\* mpsc::Sender::send of cmd through sender tx, a sender of record h's queue
SendRecs(recs, h, tx, cmd) ==
  IF tx.k = "own" THEN [recs EXCEPT ![h].rx.q = Append(@, cmd)] ELSE recs

SendThr(th, tx, cmd) ==
  IF tx.k = "thr" THEN [th EXCEPT ![tx.t].rx = Append(@, cmd)] ELSE th

QueueOf(h, tx) ==
  IF tx.k = "own" THEN rec[h].rx.q
  ELSE IF tx.k = "thr" THEN thr[tx.t].rx
  ELSE <<>>

(* ------------------------------------------------------- stop and delete *)
\* stop_debug_session on the record: take the sender, send Stop, drop it;
\* a Connecting session becomes Finished.
\* a stop that sends Stop through a clone and leaves the sender in the record
stop_record_KeepSender(r) ==
  LET r1 == IF r.tx.k = "own" THEN [r EXCEPT !.rx.q = Append(@, "Stop")] ELSE r
  IN IF r1.status = "Connecting" THEN SetStatus(r1, "Stopped", "") ELSE r1

stop_record(r) ==
  LET r1 == IF r.tx.k = "own" THEN [r EXCEPT !.rx.q = Append(@, "Stop")] ELSE r
      r2 == [r1 EXCEPT !.tx = NoTx]
  IN IF r2.status = "Connecting" THEN SetStatus(r2, "Stopped", "") ELSE r2

StopRecs(session_id) ==
  IF store[session_id] = 0 THEN rec
  ELSE [rec EXCEPT ![store[session_id]] = stop_record(@)]

StopThr(session_id) ==
  IF store[session_id] = 0 THEN thr
  ELSE SendThr(thr, rec[store[session_id]].tx, "Stop")

stop_debug_session(session_id) ==
  /\ store[session_id] # 0 => rec[store[session_id]].lock = "free"
  /\ rec' = StopRecs(session_id)
  /\ thr' = StopThr(session_id)
  /\ ret' = Ret("stop", session_id, "Ok")
  /\ out' = <<>>
  /\ UNCHANGED <<store, settings, scope>>

delete_debug_session(session_id) ==
  /\ store[session_id] # 0 => rec[store[session_id]].lock = "free"
  /\ LET st == [store EXCEPT ![session_id] = 0]
         th == StopThr(session_id)
     IN /\ store' = st
        /\ thr' = th
        /\ rec' = DropUnreferenced(StopRecs(session_id), st, th)
  /\ ret' = Ret("delete", session_id, "Ok")
  /\ out' = <<>>
  /\ UNCHANGED <<settings, scope>>

(* ---------------------------------------------------------------- start *)
Restartable(status) == status \in {"Stopped", "Error"}

start_debug_session(session_id) ==
  IF store[session_id] = 0
    THEN /\ ret' = Ret("start", session_id, "SessionNotFound")
         /\ out' = <<>>
         /\ UNCHANGED <<store, rec, thr, settings, scope>>
    ELSE LET h == store[session_id]
             again == Restartable(rec[h].status)
             r1 == IF again THEN reset(rec[h]) ELSE rec[h]
             r2 == SetStatus(r1, "Connecting", "")
         IN /\ rec[h].lock = "free"
            /\ \E t \in DOMAIN thr : thr[t].pc = "idle"
            /\ LET t == Least({x \in DOMAIN thr : thr[x].pc = "idle"})
               IN thr' = [thr EXCEPT ![t] = [IdleThr EXCEPT !.pc = "spawned", !.h = h]]
            /\ rec' = [rec EXCEPT ![h] = r2]
            /\ out' = <<emit_session_event(h, r2), Log("INFO", h, "starting")>>
            /\ ret' = Ret("start", session_id, "Ok")
            /\ UNCHANGED <<store, settings, scope>>

(* ------------------------------------------------------- step commands *)
\* step_debug_session / step_in_debug_session: look the session up, check
\* that it is Paused, clone the sender and send the command
StepCommand_Unchecked(op, cmd, session_id) ==
  /\ IF store[session_id] = 0
       THEN /\ ret' = Ret(op, session_id, "SessionNotFound")
            /\ UNCHANGED <<rec, thr>>
       ELSE LET h == store[session_id] IN
            /\ rec[h].lock = "free"
            /\ IF rec[h].tx.k = "none" \/ ~SendOk(rec[h].tx)
                 THEN /\ ret' = Ret(op, session_id, "InternalCommunication")
                      /\ UNCHANGED <<rec, thr>>
               ELSE /\ Len(QueueOf(h, rec[h].tx)) < QueueCap(scope)
                    /\ rec' = SendRecs(rec, h, rec[h].tx, cmd)
                    /\ thr' = SendThr(thr, rec[h].tx, cmd)
                    /\ ret' = Ret(op, session_id, "Ok")
  /\ out' = <<>>
  /\ UNCHANGED <<store, settings, scope>>

StepCommand(op, cmd, session_id) ==
  /\ IF store[session_id] = 0
       THEN /\ ret' = Ret(op, session_id, "SessionNotFound")
            /\ UNCHANGED <<rec, thr>>
       ELSE LET h == store[session_id] IN
            /\ rec[h].lock = "free"
            /\ IF rec[h].status # "Paused"
                 THEN /\ ret' = Ret(op, session_id, "InvalidSessionState")
                      /\ UNCHANGED <<rec, thr>>
               ELSE IF rec[h].tx.k = "none" \/ ~SendOk(rec[h].tx)
                 THEN /\ ret' = Ret(op, session_id, "InternalCommunication")
                      /\ UNCHANGED <<rec, thr>>
               ELSE /\ Len(QueueOf(h, rec[h].tx)) < QueueCap(scope)
                    /\ rec' = SendRecs(rec, h, rec[h].tx, cmd)
                    /\ thr' = SendThr(thr, rec[h].tx, cmd)
                    /\ ret' = Ret(op, session_id, "Ok")
  /\ out' = <<>>
  /\ UNCHANGED <<store, settings, scope>>

step_debug_session(session_id) == StepCommand("step", "Go", session_id)

step_in_debug_session(session_id) == StepCommand("step_in", "StepIn", session_id)

step_over_debug_session(session_id) == StepCommand("step_over", "StepOver", session_id)

step_out_debug_session(session_id) == StepCommand("step_out", "StepOut", session_id)

\* the query variants of UICommand (session.rs 14-20)
QueryCommands ==
  {"Disassembly", "GetCallStack", "SearchSymbols", "ReadMemory", "WriteMemory",
   "GetMemoryRegions"}

QueryCommandsOf(sc) == IF sc = "system" THEN QueryCommands ELSE {}

\* request_disassembly, request_callstack, search_symbols, read_memory,
\* write_memory, get_memory_regions: push the query onto the session's queue
request_query(cmd, session_id) == StepCommand("request", cmd, session_id)

(* ------------------------------------------------ module / thread tables *)
HasBase(mods, b) == \E i \in 1..Len(mods) : mods[i].base = b
HasTid(ths, tid) == \E i \in 1..Len(ths) : ths[i].tid = tid

NameAt(mods, b) ==
  IF HasBase(mods, b)
    THEN mods[Least({i \in 1..Len(mods) : mods[i].base = b})].name
    ELSE ""

\* the ProcessExited arm without the two clear() calls
ProcessExitedArm_KeepTables(r) == [r EXCEPT !.status = "Stopped", !.error = ""]

\* the ProcessExited arm of update_session_from_event
ProcessExitedArm(r) ==
  [r EXCEPT !.modules = <<>>, !.threads = <<>>, !.status = "Stopped", !.error = ""]

\* a DllLoaded arm that pushes without looking for the base
DllLoadedArm_NoDedup(r, ev) ==
  [r EXCEPT !.modules =
     Append(@, [name |-> IF ev.name = "" THEN "Unknown" ELSE ev.name,
                base |-> ev.base])]

\* a DllLoaded arm that leaves the table alone
DllLoadedArm_Skip(r, ev) == r

\* the DllLoaded arm of update_session_from_event
DllLoadedArm(r, ev) ==
  IF HasBase(r.modules, ev.base) THEN r
  ELSE [r EXCEPT !.modules =
          Append(@, [name |-> IF ev.name = "" THEN "Unknown" ELSE ev.name,
                     base |-> ev.base])]

\* a ThreadCreated arm that pushes without looking for the tid
ThreadCreatedArm_NoDedup(r, ev) ==
  [r EXCEPT !.threads = Append(@, [tid |-> ev.tid, start |-> ev.base])]

\* the ThreadCreated arm of update_session_from_event
ThreadCreatedArm(r, ev) ==
  IF HasTid(r.threads, ev.tid) THEN r
  ELSE [r EXCEPT !.threads = Append(@, [tid |-> ev.tid, start |-> ev.base])]

update_session_from_event(r, ev) ==
  IF ev.type = "DllLoaded" THEN DllLoadedArm(r, ev)
  ELSE IF ev.type = "ThreadCreated" THEN ThreadCreatedArm(r, ev)
  ELSE IF ev.type = "ProcessCreated" THEN
    LET r1 == IF HasBase(r.modules, ev.base) THEN r
              ELSE [r EXCEPT !.modules =
                      Append(@, [name |-> IF ev.name = "" THEN "main.exe" ELSE ev.name,
                                 base |-> ev.base])]
    IN IF HasTid(r1.threads, ev.tid) THEN r1
       ELSE [r1 EXCEPT !.threads = Append(@, [tid |-> ev.tid, start |-> ev.base])]
  ELSE IF ev.type = "ThreadExited" THEN
    [r EXCEPT !.threads = SelectSeq(@, LAMBDA x : x.tid # ev.tid)]
  ELSE IF ev.type = "DllUnloaded" THEN
    [r EXCEPT !.modules = SelectSeq(@, LAMBDA x : x.base # ev.base)]
  ELSE IF ev.type = "ProcessExited" THEN ProcessExitedArm(r)
  ELSE r

(* ----------------------------------------------------------- stop policy *)
\* ThreadExited reads the setting of ThreadCreated
should_pause_Swapped(ev, s) ==
  IF ev.type = "ProcessCreated" THEN s.stop_on_process_create
  ELSE IF ev.type = "ThreadCreated" THEN s.stop_on_thread_create
  ELSE IF ev.type = "ThreadExited" THEN s.stop_on_thread_create
  ELSE IF ev.type = "DllLoaded" THEN s.stop_on_dll_load
  ELSE IF ev.type = "DllUnloaded" THEN s.stop_on_dll_unload
  ELSE IF ev.type = "InitialBreakpoint" THEN s.stop_on_initial_breakpoint
  ELSE TRUE

should_pause(ev, s) ==
  IF ev.type = "ProcessCreated" THEN s.stop_on_process_create
  ELSE IF ev.type = "ThreadCreated" THEN s.stop_on_thread_create
  ELSE IF ev.type = "ThreadExited" THEN s.stop_on_thread_exit
  ELSE IF ev.type = "DllLoaded" THEN s.stop_on_dll_load
  ELSE IF ev.type = "DllUnloaded" THEN s.stop_on_dll_unload
  ELSE IF ev.type = "InitialBreakpoint" THEN s.stop_on_initial_breakpoint
  ELSE TRUE

\* the path the event handler takes: "terminal", "exit" (the early
\* ThreadExited return), "auto" or "pause"
EventRoute(ev, s) ==
  IF ev.type = "ProcessExited" THEN "terminal"
  ELSE IF ev.type = "ThreadExited" /\ ~s.stop_on_thread_exit THEN "exit"
  ELSE IF ~should_pause(ev, s) THEN "auto"
  ELSE "pause"

(* ---------------------------------------------- the control-loop thread *)
\* the name looked up in the table the event handler has just updated
unloaded_module_name_AfterUpdate(r, ev) ==
  IF ev.type = "DllUnloaded"
    THEN NameAt(update_session_from_event(r, ev).modules, ev.base) ELSE ""

\* unloaded_module_name: for DllUnloaded, the name of the module with the
\* event's base, looked up before update_session_from_event removes it
unloaded_module_name(r, ev) ==
  IF ev.type = "DllUnloaded" THEN NameAt(r.modules, ev.base) ELSE ""

\* the targeted events, log entries and toasts of a DLL load / unload
DllItems(h, ev, dll_name) ==
  IF ev.type = "DllUnloaded"
    THEN <<Emit("dll-unloaded", h, "", dll_name),
           Log("INFO", h, "DLL unloaded"), Toast("info", "DLL unloaded")>>
  ELSE IF ev.type = "DllLoaded"
    THEN <<Emit("dll-loaded", h, "", IF ev.name = "" THEN "<unknown>" ELSE ev.name),
           Log("INFO", h, "DLL loaded"), Toast("info", "DLL loaded")>>
  ELSE <<>>

\* the log entry and the toast every received event starts with
EventItems(h, ev) ==
  <<Log("DEBUG", h, "Received debug event")>> \o
  (IF ev.type \in {"Output", "DllLoaded", "DllUnloaded"}
     THEN <<>> ELSE <<Toast("info", ev.type)>>)

\* the special handling of OutputDebugString
OutputRec(r, ev) ==
  IF ev.type = "Output" THEN [r EXCEPT !.events = Append(@, ev)] ELSE r

OutputItems(h, r, ev) ==
  IF ev.type = "Output"
    THEN <<Log("INFO", h, "OutputDebugString: "),
           Toast("info", "OutputDebugString: "),
           emit_session_event(h, r)>>
    ELSE <<>>

\* the receiver a thread holds is dropped when run_debug_session returns
DropReceiver(recs, t) == DropThreadRxRecs(recs, t)

\* run_debug_session up to the Running snapshot
RunBegin(t) ==
  /\ thr[t].pc = "spawned"
  /\ LET h == thr[t].h IN
     /\ rec[h].lock = "free"
     /\ IF ~rec[h].rx.present
          THEN /\ thr' = [thr EXCEPT ![t].pc = "wrapper", ![t].result = "Err",
                                     ![t].err = "InternalCommunication"]
               /\ out' = <<>>
               /\ UNCHANGED rec
          ELSE LET r1 == [rec[h] EXCEPT !.rx = NoRx,
                                        !.tx = IF @ = OwnTx THEN ThrTx(t) ELSE @]
                   r2 == SetStatus(r1, "Running", "")
               IN /\ thr' = [thr EXCEPT ![t].pc = "connect", ![t].rx = rec[h].rx.q]
                  /\ rec' = [rec EXCEPT ![h] = r2]
                  /\ out' = <<emit_session_event(h, r2)>>
  /\ ret' = NoRet
  /\ UNCHANGED <<store, settings, scope>>

\* the auxiliary channel is opened and kept in the record at session start
OpenAuxiliary(r) == [r EXCEPT !.aux_client = TRUE]

\* DebugSession::new(..) and launch(..): connect, then wait for the first event
RunConnect(t, ok) ==
  /\ thr[t].pc = "connect"
  /\ LET h == thr[t].h IN
     /\ rec[h].lock = "free"
     /\ IF ok
          THEN /\ thr' = [thr EXCEPT ![t].pc = "await"]
               /\ rec' = [rec EXCEPT ![h] = OpenAuxiliary(@)]
               /\ out' = <<Rpc("primary", h, "Launch")>>
          ELSE /\ thr' = [thr EXCEPT ![t].pc = "wrapper", ![t].result = "Err",
                                     ![t].err = "ConnectionFailed", ![t].rx = <<>>]
               /\ rec' = DropReceiver(rec, t)
               /\ out' = <<>>
  /\ ret' = NoRet
  /\ UNCHANGED <<store, settings, scope>>

\* launch(..) fails: the transport breaks or the server answers Error
ServerError(t) ==
  /\ thr[t].pc = "await"
  /\ thr' = [thr EXCEPT ![t].pc = "wrapper", ![t].result = "Err",
                        ![t].err = "DebugLoop", ![t].rx = <<>>]
  /\ rec' = DropReceiver(rec, t)
  /\ out' = <<>>
  /\ ret' = NoRet
  /\ UNCHANGED <<store, settings, scope>>

\* where launch(..) goes once the handler of event type ty has returned
\* Ok(cont): it stops on Ok(false) and after the debuggee has exited
LaunchAfter(ty, cont) ==
  IF ~cont \/ ty = "ProcessExited" THEN "finalize" ELSE "await"

\* the on_event handler up to its first blocking call
ServerEvent(t, ev) ==
  /\ thr[t].pc = "await"
  /\ LET h == thr[t].h
         route == EventRoute(ev, settings)
         r0 == OutputRec(rec[h], ev)
         pre == EventItems(h, ev) \o OutputItems(h, r0, ev)
     IN
     /\ rec[h].lock = "free"
     /\ Len(rec[h].events) < EventsCap(scope) \/ ev.type = "ProcessExited"
     /\ IF route = "terminal" \/ route = "exit"
          THEN LET r1 == [r0 EXCEPT !.current_event = ev, !.events = Append(@, ev)]
                   r2 == update_session_from_event(r1, ev)
               IN /\ rec' = [rec EXCEPT ![h] = r2]
                  /\ out' = pre \o <<emit_session_event(h, r2)>>
                  /\ thr' = [thr EXCEPT ![t].pc = LaunchAfter(ev.type, TRUE),
                                        ![t].seen = Append(@, ev)]
        ELSE IF route = "auto"
          THEN LET captured == unloaded_module_name(r0, ev)
                   r1 == [r0 EXCEPT !.current_event = ev, !.events = Append(@, ev)]
                   r2 == SetStatus(update_session_from_event(r1, ev), "Running", "")
               IN /\ rec' = [rec EXCEPT ![h] = r2]
                  /\ out' = pre \o DllItems(h, ev, captured)
                                \o <<emit_session_event(h, r2)>>
                  /\ thr' = [thr EXCEPT ![t].pc = LaunchAfter(ev.type, TRUE),
                                        ![t].seen = Append(@, ev)]
        ELSE /\ rec' = [rec EXCEPT ![h] = r0]
             /\ out' = pre \o <<Rpc("session", h, "GetThreadContext")>>
             /\ thr' = [thr EXCEPT ![t].pc = "ctx", ![t].ev = ev,
                                   ![t].seen = Append(@, ev)]
  /\ ret' = NoRet
  /\ UNCHANGED <<store, settings, scope>>

\* the pausing path without the store of the converted context
PauseAt_NoContext(r, ev) ==
  [r EXCEPT !.current_event = ev, !.events = Append(@, ev),
            !.status = "Paused", !.error = ""]

\* what the pausing path writes under the record's mutex once it has the
\* context: the event, the log entry, Paused and the context
PauseAt(r, ev) ==
  [r EXCEPT !.current_event = ev, !.events = Append(@, ev),
            !.status = "Paused", !.error = "",
            !.current_context = "X64"]

\* the pausing path once get_thread_context has returned.  On Err the
\* handler calls emit_session_event while it still holds the record's
\* guard: the second lock() of the same mutex never returns (std::sync::Mutex
\* leaves it unspecified whether it deadlocks or panics).
ContextReply(t, ok, relock) ==
  /\ thr[t].pc = "ctx"
  /\ relock \in {"deadlock", "panic"}
  /\ LET h == thr[t].h
         ev == thr[t].ev
     IN
     /\ rec[h].lock = "free"
     /\ IF ok
          THEN LET r1 == PauseAt(rec[h], ev)
                   captured == unloaded_module_name(r1, ev)
                   r2 == update_session_from_event(r1, ev)
               IN /\ rec' = [rec EXCEPT ![h] = r2]
                  /\ out' = Holding({"record"}, DllItems(h, ev, captured))
                              \o <<emit_session_event(h, r2)>>
                  /\ thr' = [thr EXCEPT ![t].pc = "paused"]
           ELSE IF relock = "deadlock"
          THEN /\ rec' = [rec EXCEPT ![h] =
                            [SetStatus(@, "Error", "GetThreadContext failed")
                               EXCEPT !.lock = "held"]]
               /\ thr' = [thr EXCEPT ![t].pc = "deadlocked"]
               /\ out' = <<>>
        ELSE LET recs == [rec EXCEPT ![h] =
                            [SetStatus(@, "Error", "GetThreadContext failed")
                               EXCEPT !.lock = "poisoned"]]
                 th == [thr EXCEPT ![t] = IdleThr]
             IN /\ thr' = th
                /\ rec' = DropUnreferenced(DropReceiver(recs, t), store, th)
                 /\ out' = <<>>
  /\ ret' = NoRet
  /\ UNCHANGED <<store, settings, scope>>

StepCommands == {"StepIn", "StepOver", "StepOut"}

\* ui_logger::toast_error, called at session.rs 760: a show-toast event at
\* error level
toast_error(message) == Toast("error", message)

\* a handler that treats a rejected StepOut like a rejected StepIn
CommandOutcome_StepOutFatal(cmd, ok) ==
  IF cmd = "Go" THEN "resume"
  ELSE IF cmd \in {"StepIn", "StepOver", "StepOut"} THEN (IF ok THEN "resume" ELSE "error")
  ELSE IF cmd = "Stop" THEN "stop"
  ELSE "stay"

\* what handle_ui_commands does with a command whose RPC returned ok:
\* "resume" (Ok(true)), "stop" (Ok(false)), "error" (Err) or "stay"
CommandOutcome(cmd, ok) ==
  IF cmd = "Go" THEN "resume"
  ELSE IF cmd \in {"StepIn", "StepOver"} THEN (IF ok THEN "resume" ELSE "error")
  ELSE IF cmd = "StepOut" THEN (IF ok THEN "resume" ELSE "stay")
  ELSE IF cmd = "Stop" THEN "stop"
  ELSE "stay"

\* the request a process_* function makes through the loop's DebugSession
QueryRequest(cmd) ==
  CASE cmd = "Disassembly" -> "DisassembleMemory"
    [] cmd = "GetCallStack" -> "GetCallStack"
    [] cmd = "SearchSymbols" -> "FindSymbol"
    [] cmd = "ReadMemory" -> "ReadMemory"
    [] cmd = "WriteMemory" -> "WriteMemory"
    [] OTHER -> "EnumerateMemoryRegions"

\* the targeted event a process_* function emits for the Ok / Err reply
QueryEvent(cmd, ok) ==
  CASE cmd = "Disassembly" -> IF ok THEN "disassembly-updated" ELSE "disassembly-error"
    [] cmd = "GetCallStack" -> IF ok THEN "callstack-updated" ELSE "callstack-error"
    [] cmd = "SearchSymbols" -> IF ok THEN "symbols-updated" ELSE "symbols-error"
    [] cmd = "ReadMemory" -> IF ok THEN "memory-read-updated" ELSE "memory-read-error"
    [] cmd = "WriteMemory" -> IF ok THEN "memory-write-result" ELSE "memory-write-error"
    [] OTHER -> IF ok THEN "memory-regions-updated" ELSE "memory-regions-error"

\* process_disassembly_request .. process_memory_regions_request
process_query(h, cmd, ok) ==
  <<Rpc("session", h, QueryRequest(cmd)), Emit(QueryEvent(cmd, ok), h, "", "")>>

CommandItems(h, cmd, ok) ==
  (IF cmd \in QueryCommands THEN process_query(h, cmd, ok) ELSE <<>>) \o
  (IF cmd \in StepCommands THEN <<Rpc("session", h, cmd)>> ELSE <<>>) \o
  (IF cmd = "StepOut" /\ ~ok
     THEN <<Log("ERROR", h, "Step out failed"), toast_error("Step out failed")>>
     ELSE <<>>)

\* one turn of the loop of handle_ui_commands, with what the event handler
\* does with its result
RecvCommand(t, ok) ==
  /\ thr[t].pc = "paused"
  /\ LET h == thr[t].h
         q == thr[t].rx
     IN
     /\ rec[h].lock = "free"
     /\ IF q # <<>>
          THEN LET cmd == Head(q)
                   what == CommandOutcome(cmd, ok)
               IN IF what = "resume"
                    THEN LET r == SetStatus(rec[h], "Running", "")
                         IN /\ rec' = [rec EXCEPT ![h] = r]
                            /\ out' = CommandItems(h, cmd, ok)
                                        \o <<emit_session_event(h, r)>>
                                        \o (IF cmd = "Go"
                                              THEN <<Rpc("primary", h, "Continue")>>
                                              ELSE <<>>)
                            /\ thr' = [thr EXCEPT ![t].rx = Tail(q),
                                                  ![t].pc = LaunchAfter(thr[t].ev.type, TRUE)]
                  ELSE IF what = "error"
                    THEN /\ rec' = [rec EXCEPT ![h] = SetStatus(@, "Error", "Failed to start step")]
                         /\ out' = CommandItems(h, cmd, ok)
                         /\ thr' = [thr EXCEPT ![t].rx = Tail(q),
                                               ![t].pc = LaunchAfter(thr[t].ev.type, FALSE)]
                  ELSE IF what = "stop"
                    THEN /\ rec' = [rec EXCEPT ![h] = SetStatus(@, "Stopped", "")]
                         /\ out' = <<>>
                         /\ thr' = [thr EXCEPT ![t].rx = Tail(q),
                                               ![t].pc = LaunchAfter(thr[t].ev.type, FALSE)]
                  ELSE /\ out' = CommandItems(h, cmd, ok)
                       /\ thr' = [thr EXCEPT ![t].rx = Tail(q)]
                       /\ UNCHANGED rec
          ELSE /\ ~SenderAlive(t)
               /\ rec' = [rec EXCEPT ![h] =
                            SetStatus(@, "Error", "Step receiver disconnected")]
               /\ out' = <<>>
               /\ thr' = [thr EXCEPT ![t].pc = LaunchAfter(thr[t].ev.type, FALSE)]
  /\ ret' = NoRet
  /\ UNCHANGED <<store, settings, scope>>

\* the end of run_debug_session after launch(..) has returned Ok
Finalize(t) ==
  /\ thr[t].pc = "finalize"
  /\ LET h == thr[t].h
         fresh == rec[h].status # "Error"
         r1 == IF fresh THEN reset(SetStatus(rec[h], "Stopped", "")) ELSE rec[h]
         r2 == [r1 EXCEPT !.current_event = NoEvent]
     IN
     /\ rec[h].lock = "free"
     /\ rec' = DropReceiver([rec EXCEPT ![h] = r2], t)
     /\ out' = <<emit_session_event(h, r2)>>
     /\ thr' = [thr EXCEPT ![t].pc = "wrapper", ![t].result = "Ok",
                           ![t].err = "", ![t].rx = <<>>, ![t].ev = NoEvent]
  /\ ret' = NoRet
  /\ UNCHANGED <<store, settings, scope>>

\* the final status the spawned thread of start_debug_session writes
FinalStatus(r, result, err) ==
  IF result = "Ok"
    THEN [SetStatus(r, "Stopped", "") EXCEPT !.debug_result = "Ok"]
    ELSE [SetStatus(r, "Error", err) EXCEPT !.debug_result = "Err"]

\* the rest of the thread spawned by start_debug_session
Wrapper(t) ==
  /\ thr[t].pc = "wrapper"
  /\ LET h == thr[t].h
         r == FinalStatus(rec[h], thr[t].result, thr[t].err)
         th == [thr EXCEPT ![t] = IdleThr]
     IN
     /\ rec[h].lock = "free"
     /\ thr' = th
     /\ rec' = DropUnreferenced([rec EXCEPT ![h] = r], store, th)
     /\ out' = (IF thr[t].result = "Err"
                  THEN <<Log("ERROR", h, "Debug session failed")>> ELSE <<>>)
                 \o <<emit_session_event(h, r)>>
  /\ ret' = NoRet
  /\ UNCHANGED <<store, settings, scope>>

(* ------------------------------------------------- front-end queries *)
\* get_disassembly and get_session_callstack: Paused, with a current event
PausedQuery(op, req, session_id, ok) ==
  /\ IF store[session_id] = 0
       THEN /\ ret' = Ret(op, session_id, "SessionNotFound")
            /\ out' = <<>>
       ELSE LET h == store[session_id] IN
            /\ rec[h].lock = "free"
            /\ IF rec[h].status # "Paused" \/ rec[h].current_event = NoEvent
                 THEN /\ ret' = Ret(op, session_id, "InvalidSessionState")
                      /\ out' = <<>>
               ELSE IF ~rec[h].aux_client
                 THEN /\ ret' = Ret(op, session_id, "InternalCommunication")
                      /\ out' = <<>>
               ELSE /\ ret' = Ret(op, session_id,
                                  IF ok THEN "Ok" ELSE "InternalCommunication")
                    /\ out' = <<Rpc("aux", h, req)>>
  /\ UNCHANGED <<store, rec, thr, settings, scope>>

get_disassembly(session_id, ok) ==
  PausedQuery("get_disassembly", "DisassembleMemory", session_id, ok)

get_session_callstack(session_id, ok) ==
  PausedQuery("get_session_callstack", "GetCallStack", session_id, ok)

search_session_symbols(session_id, ok) ==
  /\ IF store[session_id] = 0
       THEN /\ ret' = Ret("search_session_symbols", session_id, "SessionNotFound")
            /\ out' = <<>>
       ELSE LET h == store[session_id] IN
            /\ rec[h].lock = "free"
            /\ IF ~rec[h].aux_client
                 THEN /\ ret' = Ret("search_session_symbols", session_id,
                                    "InternalCommunication")
                      /\ out' = <<>>
                 ELSE /\ ret' = Ret("search_session_symbols", session_id,
                                    IF ok THEN "Ok" ELSE "InternalCommunication")
                      /\ out' = Holding({"store", "record"}, <<Rpc("aux", h, "FindSymbol")>>)
  /\ UNCHANGED <<store, rec, thr, settings, scope>>

(* ------------------------------------------- the stop policy on its own *)
InitPolicy ==
  /\ store = [id \in Ids |-> 0]
  /\ rec = [h \in Handles |-> FreeRec]
  /\ thr = [t \in Threads |-> IdleThr]
  /\ settings \in AllSettings
  /\ scope = "policy"
  /\ ret = NoRet
  /\ out = <<>>

\* the decision the event handler takes for an event of type ty
Decide(ty) ==
  /\ ret' = Ret(ty, 0, EventRoute(Ev(ty, 0, 1, ""), settings))
  /\ out' = <<>>
  /\ UNCHANGED <<store, rec, thr, settings, scope>>

(* ------------------------------------------------------------------ Next *)
LoopSteps ==
  \/ \E t \in DOMAIN thr : RunBegin(t)
  \/ \E t \in DOMAIN thr, ok \in BOOLEAN : RunConnect(t, ok)
  \/ \E t \in DOMAIN thr : ServerError(t)
  \/ \E t \in DOMAIN thr : \E ev \in ServerEvents(scope) : ServerEvent(t, ev)
  \/ \E t \in DOMAIN thr, ok \in BOOLEAN, relock \in {"deadlock", "panic"} :
       ContextReply(t, ok, relock)
  \/ \E t \in DOMAIN thr, ok \in BOOLEAN : RecvCommand(t, ok)
  \/ \E t \in DOMAIN thr : Finalize(t)
  \/ \E t \in DOMAIN thr : Wrapper(t)

Next ==
  \/ \E n \in NamesOf(scope), u \in UrlsOf(scope), c \in CmdsOf(scope), ts \in IdsOf(scope) :
       create_debug_session(n, u, c, ts)
  \/ \E id \in IdsOf(scope) : start_debug_session(id)
  \/ \E id \in IdsOf(scope) : stop_debug_session(id)
  \/ \E id \in IdsOf(scope) : delete_debug_session(id)
  \/ \E id \in IdsOf(scope) : step_debug_session(id)
  \/ \E id \in IdsOf(scope) : step_in_debug_session(id)
  \/ \E id \in IdsOf(scope) : step_over_debug_session(id)
  \/ \E id \in IdsOf(scope) : step_out_debug_session(id)
  \/ \E id \in IdsOf(scope), cmd \in QueryCommandsOf(scope) : request_query(cmd, id)
  \/ \E id \in IdsOf(scope), ok \in BOOLEAN : get_disassembly(id, ok)
  \/ \E id \in IdsOf(scope), ok \in BOOLEAN : get_session_callstack(id, ok)
  \/ \E id \in IdsOf(scope), ok \in BOOLEAN : search_session_symbols(id, ok)
  \/ LoopSteps

NextStore ==
  \/ \E n \in NamesOf(scope), u \in UrlsOf(scope), c \in CmdsOf(scope), ts \in IdsOf(scope) :
       create_debug_session(n, u, c, ts)
  \/ \E id \in IdsOf(scope), n \in NamesOf(scope), u \in UrlsOf(scope), c \in CmdsOf(scope) :
       update_debug_session(id, n, u, c)
  \/ \E id \in IdsOf(scope) : start_debug_session(id)
  \/ \E id \in IdsOf(scope) : stop_debug_session(id)
  \/ \E id \in IdsOf(scope) : delete_debug_session(id)
  \/ LoopSteps

\* one session, started and stopped any number of times
NextRace ==
  \/ \E n \in NamesOf(scope), u \in UrlsOf(scope), c \in CmdsOf(scope), ts \in IdsOf(scope) :
       create_debug_session(n, u, c, ts)
  \/ \E id \in IdsOf(scope) : start_debug_session(id)
  \/ \E id \in IdsOf(scope) : stop_debug_session(id)
  \/ LoopSteps

\* one session run against a server that loads and unloads modules
NextTables ==
  \/ \E n \in NamesOf(scope), u \in UrlsOf(scope), c \in CmdsOf(scope), ts \in IdsOf(scope) :
       create_debug_session(n, u, c, ts)
  \/ \E id \in IdsOf(scope) : start_debug_session(id)
  \/ \E id \in IdsOf(scope) : step_debug_session(id)
  \/ \E id \in IdsOf(scope) : stop_debug_session(id)
  \/ LoopSteps

NextPolicy == \E ty \in EventTypes : Decide(ty)

(* ------------------------------- front-end queries, request by request *)
\* The same three commands with the send and the reply as separate steps of
\* the thread that runs the command: thr[t].req is the request it makes and
\* thr[t].h the record whose Arc it holds.
AuxRequests == {"DisassembleMemory", "GetCallStack", "FindSymbol"}

AuxCommand(req) ==
  CASE req = "DisassembleMemory" -> "get_disassembly"
    [] req = "GetCallStack" -> "get_session_callstack"
    [] OTHER -> "search_session_symbols"

AuxClientFree_NoMutex(h) == TRUE

\* aux_client.lock(): the Mutex of the record's auxiliary DebugClient is held
\* by the caller that is inside send_and_receive
AuxClientFree(h) ==
  \A t \in DOMAIN thr : ~(thr[t].h = h /\ thr[t].pc = "aux_sent")

\* search_session_symbols keeps the guard of the store until it returns
StoreFree ==
  \A t \in DOMAIN thr :
    ~(thr[t].pc \in {"aux_cloned", "aux_sent"} /\ thr[t].req = "FindSymbol")

\* the command looks the session up, makes its checks under the record's
\* mutex and clones the auxiliary client
AuxBegin(t, req, session_id) ==
  /\ thr[t].pc = "idle"
  /\ StoreFree
  /\ IF store[session_id] = 0
       THEN /\ ret' = Ret(AuxCommand(req), session_id, "SessionNotFound")
            /\ UNCHANGED <<rec, thr>>
       ELSE LET h == store[session_id] IN
            /\ rec[h].lock = "free"
            /\ IF /\ req # "FindSymbol"
                  /\ (rec[h].status # "Paused" \/ rec[h].current_event = NoEvent)
                 THEN /\ ret' = Ret(AuxCommand(req), session_id, "InvalidSessionState")
                      /\ UNCHANGED <<rec, thr>>
               ELSE IF ~rec[h].aux_client
                 THEN /\ ret' = Ret(AuxCommand(req), session_id, "InternalCommunication")
                      /\ UNCHANGED <<rec, thr>>
               ELSE /\ thr' = [thr EXCEPT ![t] =
                                 [IdleThr EXCEPT !.pc = "aux_cloned", !.h = h, !.req = req]]
                    /\ rec' = IF req = "FindSymbol"
                                THEN [rec EXCEPT ![h].lock = "held"] ELSE rec
                    /\ ret' = NoRet
  /\ out' = <<>>
  /\ UNCHANGED <<store, settings, scope>>

\* aux_client.lock() and the send half of client.send_and_receive
AuxSend(t) ==
  /\ thr[t].pc = "aux_cloned"
  /\ AuxClientFree(thr[t].h)
  /\ thr' = [thr EXCEPT ![t].pc = "aux_sent"]
  /\ out' = IF thr[t].req = "FindSymbol"
              THEN Holding({"store", "record"}, <<Rpc("aux", thr[t].h, thr[t].req)>>)
              ELSE <<Rpc("aux", thr[t].h, thr[t].req)>>
  /\ ret' = NoRet
  /\ UNCHANGED <<store, rec, settings, scope>>

\* the response arrives: send_and_receive returns, the guards are dropped
\* and the command returns
AuxReply(t, ok) ==
  /\ thr[t].pc = "aux_sent"
  /\ LET h == thr[t].h
         th == [thr EXCEPT ![t] = IdleThr]
         recs == IF thr[t].req = "FindSymbol"
                   THEN [rec EXCEPT ![h].lock = "free"] ELSE rec
     IN /\ thr' = th
        /\ rec' = DropUnreferenced(recs, store, th)
        /\ ret' = Ret(AuxCommand(thr[t].req), rec[h].id,
                      IF ok THEN "Ok" ELSE "InternalCommunication")
  /\ out' = <<>>
  /\ UNCHANGED <<store, settings, scope>>

\* One session paused at a breakpoint: the state after create_debug_session,
\* start_debug_session, the connection, the event Breakpoint and the reply to
\* its context fetch; the other threads are free for the commands.
PausedAtBreakpoint ==
  [FreeRec EXCEPT !.name = "n1", !.status = "Paused", !.id = 1,
                  !.server_url = "u1", !.launch_command = "c1", !.created_at = 1,
                  !.events = <<Ev("Breakpoint", 0, 1, "")>>,
                  !.current_event = Ev("Breakpoint", 0, 1, ""),
                  !.current_context = "X64", !.tx = ThrTx(1),
                  !.aux_client = TRUE]

InitAux ==
  /\ store = [id \in Ids |-> IF id = 1 THEN 1 ELSE 0]
  /\ rec = [h \in Handles |-> IF h = 1 THEN PausedAtBreakpoint ELSE FreeRec]
  /\ thr = [t \in ThreadsOf("aux") |->
              IF t = 1
                THEN [IdleThr EXCEPT !.pc = "paused", !.h = 1,
                                     !.ev = Ev("Breakpoint", 0, 1, "")]
                ELSE IdleThr]
  /\ settings = DefaultSettings
  /\ scope = "aux"
  /\ ret = NoRet
  /\ out = <<>>

\* the paused session, its loop and the command threads of the front end
NextAux ==
  \/ \E id \in IdsOf(scope) : StoreFree /\ step_debug_session(id)
  \/ \E t \in DOMAIN thr : ServerError(t)
  \/ \E t \in DOMAIN thr : \E ev \in ServerEvents(scope) : ServerEvent(t, ev)
  \/ \E t \in DOMAIN thr, ok \in BOOLEAN, relock \in {"deadlock", "panic"} :
       ContextReply(t, ok, relock)
  \/ \E t \in DOMAIN thr, ok \in BOOLEAN : RecvCommand(t, ok)
  \/ \E t \in DOMAIN thr : Finalize(t)
  \/ \E t \in DOMAIN thr : Wrapper(t)
  \/ \E t \in DOMAIN thr, req \in AuxRequests, id \in IdsOf(scope) : AuxBegin(t, req, id)
  \/ \E t \in DOMAIN thr : AuxSend(t)
  \/ \E t \in DOMAIN thr, ok \in BOOLEAN : AuxReply(t, ok)

(* --------------------------------------------- memory reads on their own *)
Bytes == {0, 1}

BytesUpTo(n) == UNION {[1..k -> Bytes] : k \in 0..n}

\* what session.read_memory can return for a request of size bytes: an error,
\* or the bytes the server could read, none included
ReadReplies(size) ==
  {[ok |-> FALSE, data |-> <<>>]} \cup {[ok |-> TRUE, data |-> d] : d \in BytesUpTo(size)}

MemoryReadResult(size, data) == [requested_size |-> size, data |-> data]

\* process_memory_read: every Ok reply, partial or empty, is emitted as
\* memory-read-updated; only Err gives memory-read-error
process_memory_read(h, size, reply) ==
  <<Rpc("session", h, "ReadMemory"),
    IF reply.ok
      THEN Emit("memory-read-updated", h, "", MemoryReadResult(size, reply.data))
      ELSE Emit("memory-read-error", h, "", "error")>>

InitMemory == InitScope("memory")

\* the loop of record h processes ReadMemory{address, size} and the server
\* sends reply
MemoryRead(h, size, reply) ==
  /\ scope = "memory"
  /\ out' = process_memory_read(h, size, reply)
  /\ ret' = NoRet
  /\ UNCHANGED <<store, rec, thr, settings, scope>>

NextMemory ==
  \E h \in Handles, size \in 1..MaxSize :
    \E reply \in ReadReplies(size) : MemoryRead(h, size, reply)

Spec == Init /\ [][Next]_vars

SpecStore == InitStore /\ [][NextStore]_vars

SpecPolicy == InitPolicy /\ [][NextPolicy]_vars

SpecRace == InitRace /\ [][NextRace]_vars

SpecTables == InitTables /\ [][NextTables]_vars

\* one session run against a server that sends every event that changes the
\* module and thread tables
InitEvents == InitScope("events")

SpecEvents == InitEvents /\ [][NextTables]_vars

\* one session whose front end sends commands faster than the loop takes them
InitQueue == InitScope("queue")

SpecQueue == InitQueue /\ [][NextTables]_vars

\* one session that the front end stops only before its first start
InitEarly == InitScope("early")

\* the session has never been started: nothing has taken its receiver and no
\* thread has been spawned for it
NeverStarted(session_id) ==
  /\ store[session_id] # 0
  /\ rec[store[session_id]].status = "Created"
  /\ rec[store[session_id]].rx.present
  /\ \A t \in DOMAIN thr : thr[t].h # store[session_id]

NextEarly ==
  \/ \E n \in NamesOf(scope), u \in UrlsOf(scope), c \in CmdsOf(scope), ts \in IdsOf(scope) :
       create_debug_session(n, u, c, ts)
  \/ \E id \in IdsOf(scope) : NeverStarted(id) /\ stop_debug_session(id)
  \/ \E id \in IdsOf(scope) : start_debug_session(id)
  \/ \E id \in IdsOf(scope) : step_debug_session(id)
  \/ LoopSteps

SpecEarly == InitEarly /\ [][NextEarly]_vars

SpecMemory == InitMemory /\ [][NextMemory]_vars

SpecAux == InitAux /\ [][NextAux]_vars

\* The steps a spawned thread takes on its own or on the reply to a request it
\* has made are taken eventually; nothing obliges the debuggee to produce
\* another event or the user to issue another command.
ThreadProgress(t) ==
  \/ RunBegin(t)
  \/ \E ok \in BOOLEAN : RunConnect(t, ok)
  \/ \E ok \in BOOLEAN, relock \in {"deadlock", "panic"} : ContextReply(t, ok, relock)
  \/ \E ok \in BOOLEAN : RecvCommand(t, ok)
  \/ Finalize(t)
  \/ Wrapper(t)

SpecLive == Init /\ [][Next]_vars /\ \A t \in Threads : WF_vars(ThreadProgress(t))

(* ------------------------------------------------------------ properties *)
Pair(r) == <<r.server_url, r.launch_command>>

Fields(r) == <<r.name, r.server_url, r.launch_command>>

PairStored(server_url, launch_command) ==
  \E id \in Ids : store[id] # 0 /\ Pair(rec[store[id]]) = <<server_url, launch_command>>

\* C1: in every reachable state of the store, whatever the interleaving of
\* create, update and delete, no two distinct session records have the same
\* (server_url, launch_command) pair.
C1_UniquePair ==
  \A i, j \in Ids :
    (i # j /\ store[i] # 0 /\ store[j] # 0)
      => Pair(rec[store[i]]) # Pair(rec[store[j]])

\* two sessions are stored and an update that would have made their pairs
\* equal has just been refused
C1_Witness ==
  /\ store[1] # 0 /\ store[2] # 0
  /\ ret.op = "update" /\ ret.res = "SessionAlreadyExists"

\* C2: create called with the (server_url, launch_command) pair of an existing
\* session returns SessionAlreadyExists, inserts no record and leaves every
\* existing record unchanged.
C2_DuplicateCreateRejected ==
  [][\A n \in NamesOf("store"), u \in UrlsOf("store"), c \in CmdsOf("store"), ts \in Ids :
       (PairStored(u, c) /\ create_debug_session(n, u, c, ts))
         => (ret'.res = "SessionAlreadyExists" /\ store' = store /\ rec' = rec)]_vars

C2_Witness ==
  /\ ret.op = "create" /\ ret.res = "SessionAlreadyExists"
  /\ \E id \in Ids : store[id] # 0

StepAny(id) ==
  \/ step_debug_session(id)
  \/ step_in_debug_session(id)
  \/ step_over_debug_session(id)
  \/ step_out_debug_session(id)

\* C4: the step commands (step/Go, step_in, step_over, step_out) succeed only
\* when the status is Paused: when it is not they return InvalidSessionState
\* and enqueue nothing on the command queue, and for an unknown id they return
\* SessionNotFound.
C4_StepOnlyWhenPaused ==
  [][\A id \in Ids :
       StepAny(id)
         => /\ store[id] = 0
                 => (ret'.res = "SessionNotFound" /\ rec' = rec /\ thr' = thr)
            /\ (store[id] # 0 /\ rec[store[id]].status # "Paused")
                 => (ret'.res = "InvalidSessionState" /\ rec' = rec /\ thr' = thr)
            /\ ret'.res = "Ok"
                 => (store[id] # 0 /\ rec[store[id]].status = "Paused")]_vars

\* a step command has just been refused on a running session
C4_Witness ==
  /\ ret.op \in {"step", "step_in", "step_over", "step_out"}
  /\ ret.res = "InvalidSessionState"
  /\ store[ret.id] # 0
  /\ rec[store[ret.id]].status = "Running"

QueryAny(id, ok) ==
  \/ get_disassembly(id, ok)
  \/ get_session_callstack(id, ok)
  \/ search_session_symbols(id, ok)

SentOnAuxiliary(items) ==
  \E i \in 1..Len(items) : items[i].kind = "rpc" /\ items[i].name = "aux"

\* C5: a front-end query (disassembly, call stack, symbol search) on a session
\* whose status is not Paused returns an error and sends no request on the
\* session's Auxiliary channel.
C5_QueryOnlyWhenPaused ==
  [][\A id \in Ids, ok \in BOOLEAN :
       (store[id] # 0 /\ rec[store[id]].status # "Paused" /\ QueryAny(id, ok))
         => (ret'.res # "Ok" /\ ~SentOnAuxiliary(out'))]_vars

Configurable ==
  {"ProcessCreated", "ThreadCreated", "ThreadExited", "DllLoaded",
   "DllUnloaded", "InitialBreakpoint"}

AlwaysPause == {"Breakpoint", "Exception", "RipEvent", "Unknown"}

SettingOf(ty, s) ==
  CASE ty = "ProcessCreated" -> s.stop_on_process_create
    [] ty = "ThreadCreated" -> s.stop_on_thread_create
    [] ty = "ThreadExited" -> s.stop_on_thread_exit
    [] ty = "DllLoaded" -> s.stop_on_dll_load
    [] ty = "DllUnloaded" -> s.stop_on_dll_unload
    [] ty = "InitialBreakpoint" -> s.stop_on_initial_breakpoint

\* C6: the pause / continue decision is a function of the event variant and
\* the settings: ProcessCreated, ThreadCreated, ThreadExited, DllLoaded,
\* DllUnloaded and InitialBreakpoint pause exactly when their stop_on_*
\* setting is true (by default all but ThreadExited), and Breakpoint,
\* Exception, Rip and Unknown always pause.
C6_StopPolicy ==
  /\ scope = "policy" /\ ret.op \in Configurable
       => ((ret.res = "pause") <=> SettingOf(ret.op, settings))
  /\ scope = "policy" /\ ret.op \in AlwaysPause => ret.res = "pause"
  /\ \A ty \in Configurable :
       (EventRoute(Ev(ty, 0, 1, ""), DefaultSettings) = "pause")
         <=> (ty # "ThreadExited")

\* ThreadExited has been decided to pause under a settings value that asks
\* for it and to continue everything else that can be configured
C6_Witness ==
  /\ scope = "policy"
  /\ ret.op = "ThreadExited" /\ ret.res = "pause"
  /\ settings.stop_on_thread_exit /\ ~settings.stop_on_thread_create

\* C7: an Output event never sets the status to Paused and never makes the
\* control loop wait for a UI command.
C7_OutputNeverPauses ==
  /\ \A t \in Threads : thr[t].pc = "paused" => thr[t].ev.type # "Output"
  /\ \A h \in Handles :
       rec[h].status = "Paused" => rec[h].current_event.type # "Output"

LastItem(items) == IF items = <<>> THEN Item("", "", 0, "", "") ELSE items[Len(items)]

\* C8: when ProcessExited is received the session does not enter Paused for
\* it; modules and threads become empty, the control loop exits, and the run
\* ends with status Stopped and a final session-updated snapshot.
C8_ProcessExitedTerminal ==
  [][\A t \in Threads :
       /\ ServerEvent(t, Ev("ProcessExited", 0, 0, ""))
            => /\ rec'[thr[t].h].status = "Stopped"
               /\ rec'[thr[t].h].modules = <<>>
               /\ rec'[thr[t].h].threads = <<>>
               /\ thr'[t].pc = "finalize"
       /\ (thr[t].pc = "finalize" /\ thr'[t].pc # "finalize")
            => (thr'[t].pc = "wrapper" /\ thr'[t].result = "Ok")
       /\ (thr[t].pc = "wrapper" /\ thr[t].result = "Ok" /\ thr'[t].pc # "wrapper")
            => /\ thr'[t].pc = "idle"
               /\ LastItem(out') = Emit("session-updated", thr[t].h, "Stopped", "")
               /\ store' = store
               /\ \A id \in Ids :
                    store[id] = thr[t].h => rec'[thr[t].h].status = "Stopped"]_vars

\* ProcessExited has been handled after ProcessCreated had filled the tables
C8_Witness ==
  \E t \in Threads :
    /\ thr[t].pc = "finalize"
    /\ rec[thr[t].h].current_event.type = "ProcessExited"
    /\ Len(rec[thr[t].h].events) >= 2
    /\ rec[thr[t].h].events[1].type = "ProcessCreated"
    /\ rec[thr[t].h].modules = <<>>

\* C9: when the thread-context fetch of a pausing event fails, the status
\* becomes Error, a session-updated snapshot carrying that Error is emitted,
\* and the control loop terminates without blocking.
C9_ContextFailureReported ==
  [][\A t \in Threads, relock \in {"deadlock", "panic"} :
       ContextReply(t, FALSE, relock)
         => /\ rec'[thr[t].h].status = "Error"
            /\ \E i \in 1..Len(out') :
                 /\ out'[i].kind = "emit" /\ out'[i].name = "session-updated"
                 /\ out'[i].status = "Error"
            /\ thr'[t].pc = "finalize"]_vars

\* C10: when a step-in or step-over RPC fails while Paused, the loop
\* terminates and, once the run has finished, the status is Error(message)
\* and debug_result records the failure.
C10_StepFailureRecorded ==
  [][\A t \in Threads :
       /\ \A ok \in BOOLEAN :
            (RecvCommand(t, ok) /\ thr[t].rx # <<>>
               /\ Head(thr[t].rx) \in {"StepIn", "StepOver"} /\ ~ok)
              => thr'[t].pc = "finalize"
       /\ (Wrapper(t) /\ rec[thr[t].h].status = "Error"
             /\ rec[thr[t].h].error = "Failed to start step"
             /\ \E id \in Ids : store[id] = thr[t].h)
            => /\ rec'[thr[t].h].status = "Error"
               /\ rec'[thr[t].h].debug_result = "Err"]_vars

(* C11: a StepOut the server rejects while the loop waits for a command
   produces exactly one error log entry and one error toast, leaves the record
   (its status included) as it was, and leaves the loop waiting on the command
   queue with the StepOut consumed; a StepIn sent to a Paused session with a
   live sender and room in its queue is accepted, and a StepIn the loop then
   receives is sent to the server and resumes the run. *)
CountItems(items, kind, name) ==
  Cardinality({i \in 1..Len(items) : items[i].kind = kind /\ items[i].name = name})

StepOutRejected(t) ==
  /\ thr[t].pc = "paused"
  /\ thr[t].rx # <<>>
  /\ Head(thr[t].rx) = "StepOut"
  /\ RecvCommand(t, FALSE)

OnPrimary(items) ==
  \E i \in 1..Len(items) :
    items[i].kind = "rpc" /\ items[i].name \in {"primary", "session"}

QueryProcessed(t) ==
  /\ thr[t].pc = "paused"
  /\ rec[thr[t].h].status = "Paused"
  /\ thr[t].rx # <<>>
  /\ Head(thr[t].rx) \in QueryCommands
  /\ \E ok \in BOOLEAN : RecvCommand(t, ok)

C12_QueryFrame ==
  [][\A t \in Threads :
       QueryProcessed(t) =>
         LET cmd == Head(thr[t].rx)
             emits == {i \in 1..Len(out') : out'[i].kind = "emit"}
         IN /\ Cardinality(emits) = 1
            /\ \A i \in emits :
                 out'[i].name \in {QueryEvent(cmd, TRUE), QueryEvent(cmd, FALSE)}
            /\ ~OnPrimary(out')
            /\ rec' = rec
            /\ thr'[t].pc = "paused"]_vars

(* C13: for each session record at most one thread at a time is inside the
   control loop (holds a receiver taken from the record and has not yet left
   launch), however start_session and stop_session are interleaved with the
   running loops. *)
ControlLoopActive(t) == thr[t].pc \in {"connect", "await", "ctx", "paused"}

C13_SingleControlLoop ==
  \A t1, t2 \in DOMAIN thr :
    (/\ ControlLoopActive(t1)
     /\ ControlLoopActive(t2)
     /\ thr[t1].h = thr[t2].h) => t1 = t2

(* C14: a start_session on a session whose status is Stopped or Error leaves
   the record with a fresh channel: a receiver with an empty command queue whose
   sender is the one kept in the record, so the queue a thread then takes
   holds none of the commands sent before that start; and the thread that
   begins the loop takes exactly the queue the record holds at that moment. *)
Restarted(id) ==
  /\ store[id] # 0
  /\ rec[store[id]].status \in {"Stopped", "Error"}
  /\ start_debug_session(id)

StopCalledOnActive(h, t) ==
  /\ ret.op = "stop"
  /\ ret.id \in Ids
  /\ store[ret.id] = h
  /\ thr[t].h = h
  /\ thr[t].pc \in {"await", "ctx", "paused"}
  /\ rec[h].status \in {"Running", "Paused"}

\* the thread has ended and the session, unless deleted meanwhile, is Stopped
LoopExitedStopped(h, t) ==
  /\ thr[t].pc = "idle"
  /\ rec[h].status \in {"Stopped", "Free"}

C15_StopEventuallyStops ==
  \A h \in Handles, t \in Threads :
    StopCalledOnActive(h, t) ~> LoopExitedStopped(h, t)

(* C16: stop_session called again right after stop_session on the same id,
   and delete_session called again right after delete_session on the same id,
   change nothing (store, records, threads and queues are as the first call
   left them), and every call of stop_session or delete_session returns
   success, whatever the id refers to. *)
C16_StopDeleteIdempotent ==
  [][
      /\ \A id \in Ids :
           (ret = Ret("stop", id, "Ok") /\ stop_debug_session(id)) =>
             (store' = store /\ rec' = rec /\ thr' = thr /\ ret' = ret)
      /\ \A id \in Ids :
           (ret = Ret("delete", id, "Ok") /\ delete_debug_session(id)) =>
             (store' = store /\ rec' = rec /\ thr' = thr /\ ret' = ret)
      /\ \A id \in Ids :
           (stop_debug_session(id) \/ delete_debug_session(id)) => ret'.res = "Ok"]_vars

\* stop_session has just taken the sender of a session whose loop is waiting
\* and has queued Stop for it
C16_Witness ==
  \E id \in Ids, t \in Threads :
    /\ ret = Ret("stop", id, "Ok")
    /\ store[id] # 0
    /\ thr[t].h = store[id]
    /\ thr[t].pc = "paused"
    /\ rec[store[id]].tx = NoTx
    /\ thr[t].rx # <<>>
    /\ thr[t].rx[Len(thr[t].rx)] = "Stop"

(* C17: delete_session on a stored session signals stop to its control loop
   (the sender leaves the record, Stop is queued), removes the record from
   the store and emits exactly one session-removed event carrying the id; on
   an unknown id it changes nothing in the store and emits no session-removed
   event. *)
C17_DeleteEmitsRemoved ==
  [][\A id \in Ids :
       delete_debug_session(id) =>
         IF store[id] # 0
           THEN /\ store'[id] = 0
                /\ CountItems(out', "emit", "session-removed") = 1
                /\ \A i \in 1..Len(out') :
                     out'[i].name = "session-removed" => out'[i].h = id
           ELSE /\ store' = store
                /\ CountItems(out', "emit", "session-removed") = 0]_vars

(* C18: once the loop has processed a DllLoaded event with base B (on the
   auto-continue path or, after the context fetch, on the pausing path) the
   module table holds exactly one entry with base B, whether or not an entry
   with base B was there before; once it has processed a DllUnloaded with
   base B the table holds none; and no table ever holds two entries with the
   same base. *)
CountBase(mods, b) == Cardinality({i \in 1..Len(mods) : mods[i].base = b})

\* the event the loop finishes processing in this step: on the auto path the
\* event just received, on the pausing path the event whose context arrived
Processed(t, ev) ==
  \/ /\ ServerEvent(t, ev)
     /\ EventRoute(ev, settings) = "auto"
  \/ /\ thr[t].pc = "ctx"
     /\ thr[t].ev = ev
     /\ \E relock \in {"deadlock", "panic"} : ContextReply(t, TRUE, relock)

C18_ModuleTable ==
  [][\A t \in Threads, ev \in ServerEvents("tables") :
       Processed(t, ev) =>
         /\ ev.type = "DllLoaded" => CountBase(rec'[thr[t].h].modules, ev.base) = 1
         /\ ev.type = "DllUnloaded" => CountBase(rec'[thr[t].h].modules, ev.base) = 0
         /\ \A b \in {1, 2} : CountBase(rec'[thr[t].h].modules, b) <= 1]_vars

\* a second DllLoaded for a base that was already in the table has just been
\* processed
C18_Witness ==
  \E t \in Threads :
    LET r == rec[thr[t].h] IN
    /\ thr[t].pc \in {"await", "paused"}
    /\ Len(r.events) >= 2
    /\ r.events[Len(r.events)] = Ev("DllLoaded", 1, 1, "a.dll")
    /\ r.events[Len(r.events) - 1].type \in {"DllLoaded", "ProcessCreated"}
    /\ r.events[Len(r.events) - 1].base = 1
    /\ CountBase(r.modules, 1) = 1

(* C19: whenever a session's status is not Paused, its current_event and its
   current_context are both absent. *)
C19_EventAndContextOnlyWhenPaused ==
  \A h \in Handles :
    rec[h].status # "Paused" =>
      (rec[h].current_event = NoEvent /\ rec[h].current_context = "None")

(* C20: no RPC request and no front-end emit (event or toast) is made while
   the store mutex or a session record mutex is held, and no thread waits on
   the command queue while it holds a record mutex. *)
C20_NoBlockingUnderLock ==
  /\ \A i \in 1..Len(out) :
       out[i].kind \in {"rpc", "emit", "toast"} => out[i].held = {}
  /\ \A t \in DOMAIN thr :
       thr[t].pc = "paused" => rec[thr[t].h].lock # "held"

(* C21: within one run the loop handles the events one at a time, and in the
   step that handles event N the record first receives the event (it becomes
   the N-th entry of events and the current event, and the module table has
   the module added or removed) and the session-updated snapshot is emitted
   last, taken from that record; so the N-th snapshot is emitted with the
   mutations of events 1..N in place and before event N+1 is handled. *)
HandledEvent(t, ev) ==
  \/ /\ ServerEvent(t, ev)
     /\ EventRoute(ev, settings) \in {"terminal", "exit", "auto"}
  \/ /\ thr[t].pc = "ctx"
     /\ thr[t].ev = ev
     /\ \E relock \in {"deadlock", "panic"} : ContextReply(t, TRUE, relock)

C21_SnapshotFollowsMutation ==
  [][\A t \in Threads, ev \in ServerEvents("tables") :
       HandledEvent(t, ev) =>
         LET h == thr[t].h IN
         /\ rec'[h].events = Append(rec[h].events, ev)
         /\ rec'[h].current_event = ev
         /\ ev.type \in {"DllLoaded", "ProcessCreated"} => HasBase(rec'[h].modules, ev.base)
         /\ ev.type = "ProcessCreated" => HasTid(rec'[h].threads, ev.tid)
         /\ ev.type = "DllUnloaded" => ~HasBase(rec'[h].modules, ev.base)
         /\ ev.type = "ProcessExited" => rec'[h].modules = <<>> /\ rec'[h].threads = <<>>
         /\ LastItem(out') = emit_session_event(h, rec'[h])
         /\ CountItems(out', "emit", "session-updated") = 1]_vars

\* the snapshot of the second event of a run has just been emitted, with the
\* module of a DllLoaded in the table
C21_Witness ==
  \E t \in Threads :
    LET r == rec[thr[t].h] IN
    /\ thr[t].pc \in {"await", "paused"}
    /\ Len(r.events) = 2
    /\ r.events[2].type = "DllLoaded"
    /\ r.current_event = r.events[2]
    /\ HasBase(r.modules, r.events[2].base)
    /\ LastItem(out) = emit_session_event(thr[t].h, r)

(* C22: when the loop waits for a command in Paused, its queue is empty and
   every sender of the queue has been dropped (no Stop was sent), the receive
   fails and the loop exits with the status Stopped, not Error. *)
ReceiveDisconnected(t) ==
  /\ thr[t].pc = "paused"
  /\ thr[t].rx = <<>>
  /\ ~SenderAlive(t)
  /\ rec[thr[t].h].status = "Paused"
  /\ \E ok \in BOOLEAN : RecvCommand(t, ok)

C22_DisconnectStops ==
  [][\A t \in DOMAIN thr :
       ReceiveDisconnected(t) =>
         /\ rec'[thr[t].h].status = "Stopped"
         /\ thr'[t].pc = "finalize"]_vars

(* C23: when a request on the Primary channel fails during a run (the
   connection cannot be opened, launch fails on a transport error or an error
   reply, or a step request sent from Paused fails), the loop terminates and
   the last session-updated of that run, the one its thread emits when it
   ends, carries the status Error. *)
PrimaryFailed(t) ==
  \/ thr[t].result = "Err" /\ thr[t].err \in {"ConnectionFailed", "DebugLoop"}
  \/ /\ rec[thr[t].h].status = "Error"
     /\ rec[thr[t].h].error = "Failed to start step"

C23_PrimaryFailureEndsInError ==
  [][\A t \in Threads :
       /\ (RunConnect(t, FALSE) \/ ServerError(t)) => thr'[t].pc = "wrapper"
       /\ (Wrapper(t) /\ PrimaryFailed(t)) =>
            /\ LastItem(out').kind = "emit"
            /\ LastItem(out').name = "session-updated"
            /\ LastItem(out').status = "Error"]_vars


\* C24: a ReadMemory of N bytes for which the server returns K bytes emits
\* memory-read-updated with requested_size = N and exactly K data bytes when
\* 0 < K <= N, and emits memory-read-error when K = 0.
C24_PartialAndEmptyReads ==
  [][\A h \in Handles, size \in 1..MaxSize :
       \A reply \in ReadReplies(size) :
         (MemoryRead(h, size, reply) /\ reply.ok) =>
           LET e == LastItem(out')
           IN IF Len(reply.data) > 0
                THEN /\ e.name = "memory-read-updated"
                     /\ e.info.requested_size = size
                     /\ Len(e.info.data) = Len(reply.data)
                ELSE e.name = "memory-read-error"]_vars

\* the part of C24 about 0 < K <= N
C24_NonEmptyReads ==
  [][\A h \in Handles, size \in 1..MaxSize :
       \A reply \in ReadReplies(size) :
         (MemoryRead(h, size, reply) /\ reply.ok /\ Len(reply.data) > 0) =>
           LET e == LastItem(out')
           IN /\ e.name = "memory-read-updated"
              /\ e.info.requested_size = size
              /\ e.info.data = reply.data]_vars

\* the loop of record h has sent Continue (or a step) and launch is blocked
\* waiting for the event that answers it
PrimaryInFlight(h) ==
  \E t \in DOMAIN thr :
    /\ thr[t].h = h
    /\ thr[t].pc = "await"
    /\ rec[h].events # <<>>

AuxSent(items, h) ==
  \E i \in 1..Len(items) :
    items[i].kind = "rpc" /\ items[i].name = "aux" /\ items[i].h = h

\* C25: no Auxiliary query of a session, issued by the control loop or by a
\* front-end command, is sent while a Primary request (Continue or Step) of
\* that session is waiting for its answer.
C25_AuxNotDuringPrimary ==
  [][\A h \in Handles : AuxSent(out', h) => ~PrimaryInFlight(h)]_vars

AuxOutstanding(h) ==
  {t \in DOMAIN thr : thr[t].h = h /\ thr[t].pc = "aux_sent"}

\* the requests thread t has sent on the connection of its own DebugSession
\* and that are not answered yet: the context fetch, or the Launch / Continue
\* whose answer is the next event
LoopOutstanding(t) ==
  IF thr[t].pc \in {"ctx", "await"} THEN 1 ELSE 0

\* C26: on each channel at most one request is outstanding at any time: the
\* callers of a session's Auxiliary channel are serialized by its mutex, so a
\* request is sent only when the previous one has been answered.
C26_OneOutstandingRequest ==
  /\ [](\A h \in Handles : Cardinality(AuxOutstanding(h)) <= 1)
  /\ [](\A t \in DOMAIN thr : LoopOutstanding(t) <= 1)
  /\ [][\A t \in DOMAIN thr : AuxSend(t) => AuxOutstanding(thr[t].h) = {}]_vars

\* one command is inside send_and_receive and a second command, which has
\* cloned the same client, is waiting for the mutex
C26_Witness ==
  \E t1, t2 \in DOMAIN thr :
    /\ t1 # t2
    /\ thr[t1].h = thr[t2].h
    /\ thr[t1].pc = "aux_sent"
    /\ thr[t2].pc = "aux_cloned"

\* the requests of item list items that the loop of record h makes for a
\* query or for a thread context (its other requests are Launch, Continue
\* and the steps)
LoopQueries(items, h) ==
  {i \in 1..Len(items) :
     /\ items[i].kind = "rpc"
     /\ items[i].name = "session"
     /\ items[i].h = h
     /\ items[i].info \notin StepCommands}

\* C27: the control loop issues its query requests, the GetThreadContext
\* fetch for a pausing event included, only while the status of the session
\* record is Paused.
C27_LoopQueriesOnlyWhenPaused ==
  [][\A h \in Handles : LoopQueries(out', h) # {} => rec[h].status = "Paused"]_vars

\* the part of C27 about the queries taken from the command queue
C27_QueueQueriesWhenPaused ==
  [][\A t \in DOMAIN thr, ok \in BOOLEAN :
       (RecvCommand(t, ok) /\ LoopQueries(out', thr[t].h) # {})
         => rec[thr[t].h].status = "Paused"]_vars

\* the loop of thread t takes command cmd from its queue and the request made
\* for it fails
CommandRpcFailed(t, cmd) ==
  /\ RecvCommand(t, FALSE)
  /\ thr[t].rx # <<>>
  /\ Head(thr[t].rx) = cmd

\* C28: while Paused, every failure of a request other than a failed step-out
\* puts the session in Error and ends the loop; this includes the failure of
\* a query request (disassembly, call stack, symbol search, memory read,
\* memory write, memory regions).
C28_RpcFailureIsFatal ==
  [][\A t \in DOMAIN thr :
       \A cmd \in (StepCommands \cup QueryCommands) \ {"StepOut"} :
         CommandRpcFailed(t, cmd) =>
           /\ rec'[thr[t].h].status = "Error"
           /\ thr'[t].pc # "paused"]_vars

\* the part of C28 about the failed step-in and step-over
C28_StepFailureIsFatal ==
  [][\A t \in DOMAIN thr :
       \A cmd \in {"StepIn", "StepOver"} :
         CommandRpcFailed(t, cmd) =>
           /\ rec'[thr[t].h].status = "Error"
           /\ thr'[t].pc # "paused"]_vars

Tables(r) == <<r.modules, r.threads>>

\* the tables the update rules give for event ev, whatever the settings
TablesAfter(r, ev) == Tables(update_session_from_event(r, ev))

\* thread t has finished handling event ev in this step: at once on the
\* terminal and auto-continue paths, with the reply to the context fetch on
\* the pausing path
EventHandled(t, ev) ==
  \/ ServerEvent(t, ev) /\ thr'[t].pc # "ctx"
  \/ /\ thr[t].ev = ev
     /\ \E ok \in BOOLEAN, relock \in {"deadlock", "panic"} : ContextReply(t, ok, relock)

\* C29: the module and thread tables after an event depend only on the
\* tables before and on the event: under the settings that pause on it and
\* under the settings that auto-continue it, the tables after the event are
\* the same function of the tables before and of the event, so two runs fed
\* the same events have equal tables after every event.
C29_TablesIndependentOfPolicy ==
  [][\A t \in DOMAIN thr : \A ev \in ServerEvents(scope) :
       EventHandled(t, ev) =>
         Tables(rec'[thr[t].h]) = TablesAfter(rec[thr[t].h], ev)]_vars

\* the same, for the events whose context fetch succeeds
C29_TablesWhenContextFetched ==
  [][\A t \in DOMAIN thr : \A ev \in ServerEvents(scope) :
       (\/ ServerEvent(t, ev) /\ thr'[t].pc # "ctx"
        \/ /\ thr[t].ev = ev
           /\ \E relock \in {"deadlock", "panic"} : ContextReply(t, TRUE, relock))
         => Tables(rec'[thr[t].h]) = TablesAfter(rec[thr[t].h], ev)]_vars

\* the names the modules table mods holds for base b
NamesOfBase(mods, b) == {mods[i].name : i \in {j \in 1..Len(mods) : mods[j].base = b}}

\* the dll-unloaded events among items
UnloadedEvents(items) ==
  {i \in 1..Len(items) : items[i].kind = "emit" /\ items[i].name = "dll-unloaded"}

\* thread t finishes the handling of a DllUnloaded whose base is in the table
UnloadProcessed(t, ev) ==
  /\ ev.type = "DllUnloaded"
  /\ \/ ServerEvent(t, ev) /\ thr'[t].pc # "ctx"
     \/ /\ thr[t].ev = ev
        /\ \E relock \in {"deadlock", "panic"} : ContextReply(t, TRUE, relock)
  /\ NamesOfBase(rec[thr[t].h].modules, ev.base) # {}

\* C30: when DllUnloaded with base B is processed while modules holds an
\* entry with base B named n, exactly one dll-unloaded event is emitted, it
\* carries dll_name = n, and the entry is gone from modules afterwards, on the
\* pausing path and on the auto-continue path alike.
C30_UnloadedNameCaptured ==
  [][\A t \in DOMAIN thr : \A ev \in ServerEvents(scope) :
       UnloadProcessed(t, ev) =>
         /\ Cardinality(UnloadedEvents(out')) = 1
         /\ \A i \in UnloadedEvents(out') :
              /\ out'[i].h = thr[t].h
              /\ NamesOfBase(rec[thr[t].h].modules, ev.base) = {out'[i].info}
         /\ NamesOfBase(rec'[thr[t].h].modules, ev.base) = {}]_vars

\* the unload of main.exe has just been handled on the pausing path: the
\* session is Paused at the DllUnloaded, the event emitted under the record's
\* guard names the module, and the table no longer holds base 1
C30_Witness ==
  \E t \in Threads :
    LET r == rec[thr[t].h] IN
    /\ thr[t].pc = "paused"
    /\ r.status = "Paused"
    /\ r.current_event.type = "DllUnloaded"
    /\ r.current_event.base = 1
    /\ NamesOfBase(r.modules, 1) = {}
    /\ \E i \in UnloadedEvents(out) : out[i].info \in {"main.exe", "a.dll"}

\* the same on the auto-continue path
C30_WitnessAuto ==
  \E t \in Threads :
    LET r == rec[thr[t].h] IN
    /\ thr[t].pc = "await"
    /\ r.status = "Running"
    /\ r.current_event.type = "DllUnloaded"
    /\ NamesOfBase(r.modules, 1) = {}
    /\ \E i \in UnloadedEvents(out) : out[i].info \in {"main.exe", "a.dll"}

\* the threads that are inside the event loop of run_debug_session
InLoop(t) == thr[t].pc \in {"await", "ctx", "paused"}

\* C31: within a run the events log only grows, and at any time it equals
\* the sequence of server events received so far in that run, in arrival
\* order, each received event appearing exactly once (the event whose context
\* is being fetched may still be missing).
C31_EventsLogIsHistory ==
  /\ [](\A t \in DOMAIN thr :
         InLoop(t) =>
           \/ rec[thr[t].h].events = thr[t].seen
           \/ /\ thr[t].pc = "ctx"
              /\ Append(rec[thr[t].h].events, thr[t].ev) = thr[t].seen)
  /\ [][\A t \in DOMAIN thr :
          (InLoop(t) /\ InLoop(t)' /\ thr'[t].h = thr[t].h) =>
            /\ Len(rec'[thr[t].h].events) >= Len(rec[thr[t].h].events)
            /\ SubSeq(rec'[thr[t].h].events, 1, Len(rec[thr[t].h].events))
                 = rec[thr[t].h].events]_vars

\* the same for the runs in which no OutputDebugString event arrives
C31_EventsLogWithoutOutput ==
  \A t \in DOMAIN thr :
    (InLoop(t) /\ \A i \in 1..Len(thr[t].seen) : thr[t].seen[i].type # "Output") =>
      \/ rec[thr[t].h].events = thr[t].seen
      \/ /\ thr[t].pc = "ctx"
         /\ Append(rec[thr[t].h].events, thr[t].ev) = thr[t].seen

Identity(r) == <<r.id, r.name, r.server_url, r.launch_command, r.created_at>>

TransientCleared(r) ==
  /\ r.events = <<>>
  /\ r.modules = <<>>
  /\ r.threads = <<>>
  /\ r.current_event = NoEvent
  /\ r.current_context = "None"
  /\ r.debug_result = "None"
  /\ ~r.aux_client

RestartOf(id) ==
  /\ start_debug_session(id)
  /\ store[id] # 0
  /\ Restartable(rec[store[id]].status)

\* C32: restarting a Stopped or Error session clears events, modules,
\* threads, current_event, current_context, debug_result and the auxiliary
\* channel handle before the new loop starts, and leaves id, name,
\* server_url, launch_command and created_at unchanged.
C32_RestartClearsTransient ==
  [][\A id \in Ids :
       RestartOf(id) =>
         /\ TransientCleared(rec'[store[id]])
         /\ Identity(rec'[store[id]]) = Identity(rec[store[id]])
         /\ \E t \in DOMAIN thr :
              thr[t].pc = "idle" /\ thr'[t].pc = "spawned" /\ thr'[t].h = store[id]]_vars

\* a session whose earlier thread had received events has just been
\* restarted: the record is clear and a new thread is spawned for it
C32_Witness ==
  /\ ret = Ret("start", 1, "Ok")
  /\ store[1] # 0
  /\ rec[store[1]].status = "Connecting"
  /\ rec[store[1]].rx.present
  /\ TransientCleared(rec[store[1]])
  /\ \E t \in DOMAIN thr : thr[t].pc = "spawned" /\ thr[t].h = store[1]
  /\ \E t \in DOMAIN thr : thr[t].h = store[1] /\ thr[t].seen # <<>>

DistinctBases(mods) ==
  \A i, j \in 1..Len(mods) : mods[i].base = mods[j].base => i = j

DistinctTids(ths) ==
  \A i, j \in 1..Len(ths) : ths[i].tid = ths[j].tid => i = j

\* C33: in every reachable state no two entries of modules share a base
\* address and no two entries of threads share a tid, for any sequence of
\* ProcessCreated, DllLoaded, DllUnloaded, ThreadCreated, ThreadExited and
\* ProcessExited events.
C33_TablesKeyed ==
  \A h \in Handles :
    /\ DistinctBases(rec[h].modules)
    /\ DistinctTids(rec[h].threads)

\* ThreadCreated for tid 1 has been processed after ProcessCreated had entered
\* the initial thread with tid 1, and DllLoaded for a base already in modules
C33_Witness ==
  \E h \in Handles :
    LET e == rec[h].events IN
    /\ Len(e) = 3
    /\ e[1].type = "ProcessCreated"
    /\ {e[2], e[3]} = {Ev("ThreadCreated", 0, 1, ""), Ev("DllLoaded", 1, 1, "a.dll")}
    /\ Len(rec[h].threads) = 1
    /\ Len(rec[h].modules) = 1

\* C34: whenever a session's status is Paused, its current_event is present
\* and its current_context is present.
C34_PausedHasEventAndContext ==
  \A h \in Handles :
    rec[h].status = "Paused" =>
      /\ rec[h].current_event # NoEvent
      /\ rec[h].current_context # "None"

\* a session restarted after an earlier run has paused again: the context
\* cleared by reset has been stored anew
C34_Witness ==
  \E t \in DOMAIN thr :
    /\ thr[t].pc = "paused"
    /\ rec[thr[t].h].status = "Paused"
    /\ rec[thr[t].h].current_event.type = "Breakpoint"
    /\ rec[thr[t].h].current_context = "X64"
    /\ \E u \in DOMAIN thr : u # t /\ thr[u].h = thr[t].h /\ thr[u].seen # <<>>

\* thread t waits for a mutex of record rec[thr[t].h] that will never be
\* released: it waits in emit_session_event for the guard it holds itself
BlockedForever(t) ==
  /\ thr[t].pc = "deadlocked"
  /\ rec[thr[t].h].lock = "held"

\* C35: no reachable state has a thread blocked forever on the store mutex,
\* a session record mutex or the auxiliary-channel mutex.
C35_NoThreadBlockedForever ==
  \A t \in DOMAIN thr : ~BlockedForever(t)

\* a guard of a record's mutex is held only by a thread that goes on to
\* release it, unless the context fetch of the record's loop has failed
C35_GuardsReleased ==
  \A h \in Handles :
    rec[h].lock = "held" =>
      \/ \E t \in DOMAIN thr : thr[t].h = h /\ thr[t].pc = "deadlocked"
      \/ \E t \in DOMAIN thr :
           thr[t].h = h /\ thr[t].pc \in {"aux_cloned", "aux_sent"} /\ thr[t].req = "FindSymbol"

\* create_debug_session has returned Ok in this step
Created(name, server_url, launch_command, ts) ==
  /\ create_debug_session(name, server_url, launch_command, ts)
  /\ ret' = Ret("create", ts, "Ok")

\* C36: create_session never removes or overwrites an existing session
\* record: after a successful create the store holds every session that was
\* present before, unchanged, plus the new one, each under a distinct id,
\* also when two creates read the same millisecond from the clock.
C36_CreateKeepsSessions ==
  [][\A n \in NamesOf(scope), u \in UrlsOf(scope), c \in CmdsOf(scope), ts \in IdsOf(scope) :
       Created(n, u, c, ts) =>
         /\ \A id \in Ids :
              store[id] # 0 =>
                /\ store'[id] = store[id]
                /\ rec'[store[id]] = rec[store[id]]
         /\ Cardinality({id \in Ids : store'[id] # 0})
              = Cardinality({id \in Ids : store[id] # 0}) + 1]_vars

\* the same for the creates whose clock value is not the id of a stored session
C36_CreateWithFreshId ==
  [][\A n \in NamesOf(scope), u \in UrlsOf(scope), c \in CmdsOf(scope), ts \in IdsOf(scope) :
       (Created(n, u, c, ts) /\ store[ts] = 0) =>
         /\ \A id \in Ids :
              store[id] # 0 =>
                /\ store'[id] = store[id]
                /\ rec'[store[id]] = rec[store[id]]
         /\ Cardinality({id \in Ids : store'[id] # 0})
              = Cardinality({id \in Ids : store[id] # 0}) + 1]_vars

\* C37: start_session called on a session whose control loop is already
\* active does not change that session's status or debug_result and does not
\* disturb the active loop.
C37_StartOnActiveIsNoOp ==
  [][\A id \in Ids :
       (/\ start_debug_session(id)
        /\ store[id] # 0
        /\ \E t \in DOMAIN thr : thr[t].h = store[id] /\ ControlLoopActive(t)) =>
         /\ rec'[store[id]].status = rec[store[id]].status
         /\ rec'[store[id]].debug_result = rec[store[id]].debug_result
         /\ \A t \in DOMAIN thr : ControlLoopActive(t) => thr'[t] = thr[t]]_vars

\* the commands step_debug_session and the step commands put on the queue
ResumeCommands == {"Go"} \cup StepCommands

\* the loop of thread t enters handle_ui_commands for a new pausing event
PauseBegins(t) ==
  \E relock \in {"deadlock", "panic"} : ContextReply(t, TRUE, relock)

\* C38: every command the control loop dequeues while handling a pause was
\* enqueued during that same pause: when the loop starts to wait for commands
\* for a new event, no step command accepted during an earlier pause is
\* waiting in its queue, so none is executed against the later event.
C38_NoStaleCommands ==
  [][\A t \in DOMAIN thr :
       PauseBegins(t) =>
         \A i \in 1..Len(thr'[t].rx) : thr'[t].rx[i] \notin ResumeCommands]_vars

\* record h belongs to a session that delete_debug_session has removed from
\* the store: the record lives on only through the Arc of its loop thread
Deleted(h) ==
  /\ rec[h].status # "Free"
  /\ \A id \in Ids : store[id] # h

SessionUpdates(items, h) ==
  {i \in 1..Len(items) :
     items[i].kind = "emit" /\ items[i].name = "session-updated" /\ items[i].h = h}

\* C39: after delete_session(id) has returned, no further session-updated
\* event is emitted for id.
C39_NoUpdateAfterDelete ==
  [][\A h \in Handles : Deleted(h) => SessionUpdates(out', h) = {}]_vars

\* C40: stop_session called on a session that has never been started (status
\* Created) does not affect a later run: after a following start_session the
\* loop that has paused on an event finds no Stop waiting in its queue, so it
\* waits for user commands, and the record still holds the sender, so step
\* commands sent during that pause are accepted.
C40_EarlyStopHarmless ==
  /\ [](\A t \in DOMAIN thr :
          thr[t].pc = "paused" =>
            /\ \A i \in 1..Len(thr[t].rx) : thr[t].rx[i] # "Stop"
            /\ rec[thr[t].h].tx = ThrTx(t))
  /\ [][\A id \in Ids :
          (/\ step_debug_session(id)
           /\ store[id] # 0
           /\ rec[store[id]].status = "Paused"
           /\ Len(QueueOf(store[id], rec[store[id]].tx)) < QueueCap(scope))
            => ret' = Ret("step", id, "Ok")]_vars

\* the same for the runs in which stop_session is never called
C40_WithoutEarlyStop ==
  [](\A t \in DOMAIN thr :
       (thr[t].pc = "paused" /\ rec[thr[t].h].tx # NoTx) =>
         /\ \A i \in 1..Len(thr[t].rx) : thr[t].rx[i] # "Stop"
         /\ rec[thr[t].h].tx = ThrTx(t))

====
